---- MODULE Spec2Model ----
(***************************************************************************)
(* A rich-text editing widget: an editable surface driven either by the    *)
(* embedded editor (TextEditorComponent) or by the shared toolbar          *)
(* (ToolbarService + RichTextDirective + FloatingToolbarComponent).        *)
(*                                                                         *)
(* The page is a tree of nodes; a boundary point is a path from BODY plus  *)
(* an offset; a range is a pair of boundary points.  Text nodes are atomic *)
(* (offset 0 = before the text, 1 = after it).  Pixel sizes are integers   *)
(* in units of 1/Scale px so that parseFloat and toFixed(1) are exact.     *)
(***************************************************************************)
EXTENDS Integers, Sequences, FiniteSets, TLC

VARIABLES
  impl,        \* "editor": TextEditorComponent, "toolbar": ToolbarService + directive
  engine,      \* how the browser's fontName command places its wrappers
  dom,         \* the editable surface's subtree (its root is the surface element)
  isDisabled,  \* isDisabled of the component / of the directive
  sel,         \* window.getSelection(): NoRange or a range
  savedRange,  \* savedRange of the component / of the service
  state,       \* FormatState: toolbarState / activeStates.value
  isVisible,   \* ToolbarService.isVisible
  position,    \* ToolbarService.position
  isUpdating,  \* ToolbarService.isUpdating
  pc,          \* position inside the running formatting handler, "idle" when none
  opSize,      \* the size argument of the running / last setFontSize call
  newSpans,    \* setFontSize's newSpans of the running / last call, as where each ended up
  emitted,     \* the html last handed to the registered onChange callback
  calls,       \* the last formatting handler: its name, argument, what it called and
               \* the steps it took, in the order it took them
  ops          \* how many formatting handlers have been invoked

vars == <<impl, engine, dom, isDisabled, sel, savedRange, state, isVisible,
          position, isUpdating, pc, opSize, newSpans, emitted, calls, ops>>

-----------------------------------------------------------------------------
(* Bounds *)

\* longest text typed in the manual font-size input
MaxLen == 4

\* formatting handlers invoked in one behaviour
MaxOps == 1

\* sizes are integers in units of 1/Scale px: MaxLen characters hold at most
\* MaxLen - 1 decimals
RECURSIVE Pow10(_)
Pow10(n) == IF n = 0 THEN 1 ELSE 10 * Pow10(n - 1)

Scale == Pow10(MaxLen - 1)

-----------------------------------------------------------------------------
(* Numbers: parseFloat, toFixed(1) *)

Digits == {"1", "4", "5"}
Alphabet == Digits \cup {".", "a", "-"}

DigitVal(c) == CASE c = "1" -> 1 [] c = "4" -> 4 [] c = "5" -> 5

RECURSIVE StringsUpTo(_)
StringsUpTo(n) ==
  IF n = 0 THEN {<<>>}
  ELSE LET shorter == StringsUpTo(n - 1)
       IN shorter \cup {Append(s, c) : s \in {t \in shorter : Len(t) = n - 1}, c \in Alphabet}

RECURSIVE SkipSpaces(_)
SkipSpaces(s) == IF s # <<>> /\ Head(s) = " " THEN SkipSpaces(Tail(s)) ELSE s

\* the longest prefix of s made of digits
RECURSIVE DigitPrefix(_)
DigitPrefix(s) ==
  IF s # <<>> /\ Head(s) \in Digits THEN <<Head(s)>> \o DigitPrefix(Tail(s)) ELSE <<>>

RECURSIVE IntVal(_)
IntVal(ds) == IF ds = <<>> THEN 0 ELSE 10 * IntVal(SubSeq(ds, 1, Len(ds) - 1)) + DigitVal(ds[Len(ds)])

NaN == [nan |-> TRUE, neg |-> FALSE, v |-> 0]

\* parseFloat: leading white space is skipped, then the longest prefix that is
\* a decimal literal is converted; NaN when there is none.  v is in 1/Scale.
parseFloat(text) ==
  LET s0    == SkipSpaces(text)
      neg   == s0 # <<>> /\ Head(s0) = "-"
      s1    == IF neg THEN Tail(s0) ELSE s0
      ip    == DigitPrefix(s1)
      r1    == SubSeq(s1, Len(ip) + 1, Len(s1))
      fp    == IF r1 # <<>> /\ Head(r1) = "." THEN DigitPrefix(Tail(r1)) ELSE <<>>
  IN IF ip = <<>> /\ fp = <<>> THEN NaN
     ELSE [nan |-> FALSE, neg |-> neg,
           v |-> IntVal(ip) * Scale + IntVal(fp) * Pow10(MaxLen - 1 - Len(fp))]

\* parseFloat(x.toFixed(1)): x rounded to one decimal place
Round1(x) == LET tenth == Scale \div 10 IN ((x + tenth \div 2) \div tenth) * tenth

Px(n) == n * Scale

DefaultFontSize == 12

-----------------------------------------------------------------------------
(* The page: nodes, paths, boundary points, ranges *)

Blank == [tag |-> "#text", txt |-> "", fs |-> 0, face |-> FALSE, fam |-> FALSE,
          sz |-> FALSE, ce |-> "", cls |-> "", al |-> "", mid |-> 0, w |-> {},
          kids |-> <<>>]

Txt(t)        == [Blank EXCEPT !.txt = t]
El(tag, kids) == [Blank EXCEPT !.tag = tag, !.kids = kids]
Sized(size, kids) == [El("SPAN", kids) EXCEPT !.fs = size]
FontFace(kids) == [El("FONT", kids) EXCEPT !.face = TRUE]
SpanFam(kids)  == [El("SPAN", kids) EXCEPT !.fam = TRUE]

IsElem(n) == n.tag # "#text"

\* BODY > [ host > [surface], toolbar > [input], paragraph > ["z"] ]
SurfPath    == <<1, 1>>
ToolbarPath == <<2>>
ParaTextPath == <<3, 1>>

Page(surface, disabled) ==
  El("BODY", <<
    El("DIV", << [surface EXCEPT !.ce = IF disabled THEN "false" ELSE "true"] >>),
    [El("DIV", << El("INPUT", <<>>) >>) EXCEPT !.cls = "floating-toolbar"],
    El("P", << Txt("z") >>) >>)

RECURSIVE NodeAt(_, _)
NodeAt(t, p) == IF p = <<>> THEN t ELSE NodeAt(t.kids[Head(p)], Tail(p))

RECURSIVE PutAt(_, _, _)
PutAt(t, p, n) ==
  IF p = <<>> THEN n ELSE [t EXCEPT !.kids[Head(p)] = PutAt(@, Tail(p), n)]

Front(p) == SubSeq(p, 1, Len(p) - 1)
Last(p)  == p[Len(p)]

IsPrefix(p, q) == Len(p) <= Len(q) /\ SubSeq(q, 1, Len(p)) = p

\* every path of the tree t, in document (pre-)order, each prefixed by pre
RECURSIVE PathsFrom(_, _)
RECURSIVE KidPaths(_, _, _)
PathsFrom(t, pre) == <<pre>> \o KidPaths(t, pre, 1)
KidPaths(t, pre, i) ==
  IF i > Len(t.kids) THEN <<>>
  ELSE PathsFrom(t.kids[i], Append(pre, i)) \o KidPaths(t, pre, i + 1)

SeqFilter(s, Keep(_)) ==
  LET F[i \in 0..Len(s)] ==
        IF i = 0 THEN <<>>
        ELSE IF Keep(s[i]) THEN Append(F[i - 1], s[i]) ELSE F[i - 1]
  IN F[Len(s)]

\* F(v), with v worked out once and named in F
With(v, F(_)) == CHOOSE y \in {F(x) : x \in {v}} : TRUE


Range(s) == {s[i] : i \in 1..Len(s)}

\* boundary points and ranges
BP(n, o) == [n |-> n, o |-> o]
Origin   == BP(<<>>, 0)
NoRange  == [on |-> FALSE, s |-> Origin, e |-> Origin]
Rng(s, e) == [on |-> TRUE, s |-> s, e |-> e]

Before(p) == BP(Front(p), Last(p) - 1)
After(p)  == BP(Front(p), Last(p))

\* the position of boundary point a relative to b: -1 before, 0 equal, 1 after
CmpBP(a, b) ==
  IF a.n = b.n THEN (IF a.o < b.o THEN -1 ELSE IF a.o = b.o THEN 0 ELSE 1)
  ELSE IF IsPrefix(a.n, b.n) THEN (IF b.n[Len(a.n) + 1] - 1 < a.o THEN 1 ELSE -1)
  ELSE IF IsPrefix(b.n, a.n) THEN (IF a.n[Len(b.n) + 1] - 1 < b.o THEN -1 ELSE 1)
  ELSE LET k == CHOOSE i \in 1..Len(a.n) :
                  /\ a.n[i] # b.n[i]
                  /\ \A j \in 1..(i - 1) : a.n[j] = b.n[j]
       IN IF a.n[k] < b.n[k] THEN -1 ELSE 1

RECURSIVE CommonPrefix(_, _)
CommonPrefix(p, q) ==
  IF p = <<>> \/ q = <<>> \/ Head(p) # Head(q) THEN <<>>
  ELSE <<Head(p)>> \o CommonPrefix(Tail(p), Tail(q))

\* Range.commonAncestorContainer, Selection.anchorNode, Selection.isCollapsed
commonAncestorContainer(r) == CommonPrefix(r.s.n, r.e.n)
anchorNode(r) == r.s.n
isCollapsed(r) == r.s = r.e

\* Node.parentElement of the node at path p (<<>> has none: the empty path again)
parentElement(p) == IF p = <<>> THEN <<>> ELSE Front(p)

\* Node.contains: inclusive descendant
contains(root, p) == IsPrefix(root, p)

\* a boundary point at an edge of its container is the same place as the point
\* just outside that container; HoistBP moves it out as far as the surface
RECURSIVE HoistBP(_, _)
HoistBP(page, b) ==
  IF ~IsPrefix(SurfPath, b.n) \/ b.n = SurfPath THEN b
  ELSE LET n == NodeAt(page, b.n)
           len == IF IsElem(n) THEN Len(n.kids) ELSE 1
       IN IF b.o = 0 THEN HoistBP(page, Before(b.n))
          ELSE IF b.o = len THEN HoistBP(page, After(b.n))
          ELSE b

\* the node at p lies wholly inside the range r (its boundary points hoisted)
Selected(page, r, p) ==
  /\ r.on /\ Len(p) > Len(SurfPath) /\ IsPrefix(SurfPath, p)
  /\ CmpBP(HoistBP(page, r.s), Before(p)) <= 0
  /\ CmpBP(After(p), HoistBP(page, r.e)) <= 0

-----------------------------------------------------------------------------
(* The browser's editing primitives (document.execCommand, queryCommandState, *)
(* getComputedStyle), as far as the handlers depend on them                   *)

\* a run is a parent q and the child indices i..j of consecutive children
Run(q, i, j) == [q |-> q, i |-> i, j |-> j]

SelectedPaths(page, r) ==
  SeqFilter(PathsFrom(page, <<>>), LAMBDA p : Selected(page, r, p))

IsTop(page, r, p) == Selected(page, r, p) /\ ~Selected(page, r, Front(p))

\* the nodes a command wraps, one wrapper each before sibling runs are merged:
\*   "top"  the topmost nodes wholly inside the range
\*   "leaf" every text node inside the range
\*   "run"  the first text node inside the range and what follows it at each
\*          level, topmost nodes after that
\* p follows the first text node f at one of the levels above f
FollowsFirst(p, f) ==
  \E k \in (Len(SurfPath) + 1)..Len(f) :
    /\ Len(p) = k
    /\ Front(p) = SubSeq(f, 1, k - 1)
    /\ Last(p) > f[k]

\* sp are the selected paths and leaves the text nodes among them
ChosenAmong(page, r, place, sp, leaves) ==
  IF leaves = <<>> THEN <<>>
  ELSE CASE place = "top"  -> SeqFilter(sp, LAMBDA p : IsTop(page, r, p))
         [] place = "leaf" -> leaves
         [] place = "run"  ->
              SeqFilter(sp, LAMBDA p :
                  \/ p = leaves[1]
                  \/ FollowsFirst(p, leaves[1])
                  \/ (~IsPrefix(p, leaves[1]) /\ IsTop(page, r, p)))

Chosen(page, r, place) ==
  With(SelectedPaths(page, r), LAMBDA sp :
    With(SeqFilter(sp, LAMBDA p : ~IsElem(NodeAt(page, p))), LAMBDA leaves :
      ChosenAmong(page, r, place, sp, leaves)))

\* consecutive siblings among the chosen nodes c become one run ("run" only)
RECURSIVE EndOfRun(_, _)
EndOfRun(c, p) ==
  IF \E i \in 1..Len(c) : c[i] = Append(Front(p), Last(p) + 1)
  THEN EndOfRun(c, Append(Front(p), Last(p) + 1))
  ELSE Last(p)

RunsOf(c, place) ==
  IF place = "run"
  THEN With(SeqFilter(c, LAMBDA p : \A i \in 1..Len(c) : c[i] # Append(Front(p), Last(p) - 1)),
            LAMBDA starts :
              [k \in 1..Len(starts) |->
                 Run(Front(starts[k]), Last(starts[k]), EndOfRun(c, starts[k]))])
  ELSE [k \in 1..Len(c) |-> Run(Front(c[k]), Last(c[k]), Last(c[k]))]

Runs(page, r, place) == With(Chosen(page, r, place), LAMBDA c : RunsOf(c, place))

\* the element a command puts around content: the marker in one of its two
\* forms for fontName, a bold element for bold
WrapperFor(kind, kids) ==
  CASE kind = "font" -> FontFace(kids)
    [] kind = "span" -> SpanFam(kids)
    [] kind = "bold" -> El("B", kids)

\* the children i..j of q moved into one new element
WrapRun(page, run, kind) ==
  LET q == NodeAt(page, run.q)
      ks == q.kids
  IN PutAt(page, run.q,
           [q EXCEPT !.kids = SubSeq(ks, 1, run.i - 1)
                              \o << WrapperFor(kind, SubSeq(ks, run.i, run.j)) >>
                              \o SubSeq(ks, run.j + 1, Len(ks))])

\* where a boundary point outside the moved children is after WrapRun
MapBP(b, run) ==
  LET d == run.j - run.i
      lq == Len(run.q)
  IN IF b.n = run.q
     THEN (IF b.o >= run.j THEN BP(b.n, b.o - d) ELSE b)
     ELSE IF IsPrefix(run.q, b.n) /\ b.n[lq + 1] > run.j
          THEN BP([b.n EXCEPT ![lq + 1] = @ - d], b.o)
          ELSE b

\* runs are wrapped last first, so that the paths of the earlier ones stay valid
RECURSIVE WrapAll(_, _, _)
WrapAll(page, runs, kind) ==
  IF runs = <<>> THEN page
  ELSE WrapAll(WrapRun(page, runs[Len(runs)], kind), SubSeq(runs, 1, Len(runs) - 1), kind)

RECURSIVE MapAll(_, _)
MapAll(b, runs) ==
  IF runs = <<>> THEN b
  ELSE MapAll(MapBP(b, runs[Len(runs)]), SubSeq(runs, 1, Len(runs) - 1))

\* a command acts only on a selection that lies in an editing host
Editable(page, r) ==
  /\ r.on
  /\ contains(SurfPath, r.s.n) /\ contains(SurfPath, r.e.n)
  /\ NodeAt(page, SurfPath).ce = "true"

\* document.execCommand(command, false, value): the page and the live range after
\* it.  An inline command wraps the selected content; the range then spans the
\* same content from outside the wrappers.  An unknown command, a collapsed or a
\* non-editable selection changes nothing.
NativeOn(page, r, eng, command, runs) ==
  IF ~Editable(page, r) THEN [page |-> page, sel |-> r, acted |-> FALSE]
  ELSE IF command \in {"fontName", "bold"} /\ runs # <<>>
       THEN [page  |-> WrapAll(page, runs, IF command = "fontName" THEN eng.form ELSE "bold"),
             sel   |-> Rng(MapAll(HoistBP(page, r.s), runs), MapAll(HoistBP(page, r.e), runs)),
             acted |-> TRUE]
  ELSE IF command = "justifyCenter"
       THEN [page |-> [page EXCEPT !.kids[1].kids[1].al = "center"], sel |-> r, acted |-> TRUE]
  ELSE [page |-> page, sel |-> r, acted |-> FALSE]

NativeCommand(page, r, eng, command) ==
  With(Runs(page, r, eng.place), LAMBDA runs : NativeOn(page, r, eng, command, runs))

\* an inclusive ancestor of the node at p satisfies P
HasAncestor(page, p, P(_)) ==
  \E k \in 0..Len(p) : P(NodeAt(page, SubSeq(p, 1, k)))

\* document.queryCommandState(key) at the live selection
queryCommandState(page, r, key) ==
  /\ r.on
  /\ CASE key = "bold"          -> HasAncestor(page, r.s.n, LAMBDA n : n.tag = "B")
       [] key = "italic"        -> HasAncestor(page, r.s.n, LAMBDA n : n.tag = "I")
       [] key = "underline"     -> HasAncestor(page, r.s.n, LAMBDA n : n.tag = "U")
       [] key = "justifyLeft"   -> HasAncestor(page, r.s.n, LAMBDA n : n.al = "left")
       [] key = "justifyCenter" -> HasAncestor(page, r.s.n, LAMBDA n : n.al = "center")
       [] key = "justifyRight"  -> HasAncestor(page, r.s.n, LAMBDA n : n.al = "right")

\* the size the page's style sheet gives text that sets none of its own
InheritedFontSize == 16

\* parseFloat(window.getComputedStyle(element at p).fontSize): the nearest
\* inline font-size on the way up, the inherited size when there is none
RECURSIVE ComputedFontSize(_, _)
ComputedFontSize(page, p) ==
  LET n == NodeAt(page, p)
  IN IF n.fs # 0 THEN n.fs
     ELSE IF p = <<>> THEN Px(InheritedFontSize)
     ELSE ComputedFontSize(page, Front(p))

-----------------------------------------------------------------------------
(* Selection Tracker and Active-State Prober *)

\* ToolbarService.isContentEditable: walk up from the node at p
RECURSIVE isContentEditable(_, _)
isContentEditable(page, p) ==
  LET el == NodeAt(page, p)
  IN IF IsElem(el) /\ el.ce = "true" THEN TRUE
     ELSE IF IsElem(el) /\ el.ce = "false" THEN FALSE
     ELSE IF IsElem(el) /\ el.cls = "floating-toolbar" THEN FALSE
     ELSE IF p = <<>> THEN FALSE
     ELSE isContentEditable(page, Front(p))

\* a save that clones whatever range is live
ServiceSaveSelectionAlways(page, live, saved) == IF live.on THEN live ELSE saved

\* ToolbarService.saveSelection: the new savedRange
ServiceSaveSelection(page, live, saved) ==
  IF live.on /\ isContentEditable(page, commonAncestorContainer(live)) THEN live ELSE saved

\* TextEditorComponent.saveSelection: the new savedRange
EditorSaveSelection(page, live, saved) ==
  IF live.on /\ contains(SurfPath, anchorNode(live)) THEN live ELSE saved

saveSelection(who, page, live, saved) ==
  IF who = "toolbar" THEN ServiceSaveSelection(page, live, saved)
  ELSE EditorSaveSelection(page, live, saved)

\* a restore that re-applies savedRange without asking whether one was saved
restoreSelectionUnguarded(live, saved) == saved

\* restoreSelection (both): the new live selection
restoreSelection(live, saved) == IF saved.on THEN saved ELSE live

InitialState ==
  [bold |-> FALSE, italic |-> FALSE, underline |-> FALSE, justifyLeft |-> FALSE,
   justifyCenter |-> FALSE, justifyRight |-> FALSE, fontSize |-> Px(DefaultFontSize)]

\* the keys as probed at the live selection's anchor
Probe(page, live) ==
  [bold          |-> queryCommandState(page, live, "bold"),
   italic        |-> queryCommandState(page, live, "italic"),
   underline     |-> queryCommandState(page, live, "underline"),
   justifyLeft   |-> queryCommandState(page, live, "justifyLeft"),
   justifyCenter |-> queryCommandState(page, live, "justifyCenter"),
   justifyRight  |-> queryCommandState(page, live, "justifyRight"),
   fontSize      |-> Round1(ComputedFontSize(page, parentElement(anchorNode(live))))]

\* ToolbarService.updateActiveStates: the new activeStates value
updateActiveStates(page, live, st) ==
  IF live.on /\ isContentEditable(page, anchorNode(live)) THEN Probe(page, live) ELSE st

\* a refresh that probes wherever the selection is
updateToolbarStateUnguarded(page, live, st) == Probe(page, live)

\* TextEditorComponent.updateToolbarState: the new toolbarState
updateToolbarState(page, live, st) ==
  IF ~live.on \/ ~contains(SurfPath, anchorNode(live)) THEN st ELSE Probe(page, live)

refresh(who, page, live, st) ==
  IF who = "toolbar" THEN updateActiveStates(page, live, st)
  ELSE updateToolbarState(page, live, st)

-----------------------------------------------------------------------------
(* Font-Size Rewriter: the search for marked elements and toReplace.forEach *)

IsFontMarker(n) == n.tag = "FONT" /\ n.face
IsSpanMarker(n) == n.tag = "SPAN" /\ n.fam
IsMarker(n)     == IsFontMarker(n) \/ IsSpanMarker(n)

\* root.querySelectorAll(...): the proper descendants of root that satisfy P, in
\* document order
querySelectorAll(page, root, P(_)) ==
  SeqFilter(PathsFrom(NodeAt(page, root), root),
            LAMBDA p : p # root /\ P(NodeAt(page, p)))

\* toReplace: the font-tag matches, then the span matches
toReplace(page, root) ==
  querySelectorAll(page, root, IsFontMarker) \o querySelectorAll(page, root, IsSpanMarker)

\* the elements of toReplace are told apart by mid, their index in toReplace
RECURSIVE TagMarked(_, _, _)
TagMarked(page, paths, k) ==
  IF k > Len(paths) THEN page
  ELSE TagMarked(PutAt(page, paths[k], [NodeAt(page, paths[k]) EXCEPT !.mid = k]), paths, k + 1)

\* "1. Clean Inner Styles", applied to one descendant and to those below it
RECURSIVE CleanNode(_)
CleanNode(n) ==
  IF ~IsElem(n) THEN n
  ELSE [n EXCEPT !.fs = 0,
                 !.sz = IF n.tag = "FONT" THEN FALSE ELSE @,
                 !.face = IF n.tag = "FONT" THEN FALSE ELSE @,
                 !.kids = [i \in 1..Len(n.kids) |-> CleanNode(n.kids[i])]]

CleanInnerStyles(el) == [el EXCEPT !.kids = [i \in 1..Len(el.kids) |-> CleanNode(el.kids[i])]]

\* span.innerHTML = el.innerHTML: new nodes with the same markup; adjacent text
\* nodes come back as one text node
RECURSIVE CloneKids(_)
RECURSIVE MergeText(_)
MergeText(ks) ==
  IF Len(ks) < 2 THEN ks
  ELSE IF ~IsElem(ks[1]) /\ ~IsElem(ks[2])
       THEN MergeText(<< Txt(ks[1].txt \o ks[2].txt) >> \o SubSeq(ks, 3, Len(ks)))
       ELSE << ks[1] >> \o MergeText(Tail(ks))
CloneKids(ks) ==
  MergeText([i \in 1..Len(ks) |->
               [ks[i] EXCEPT !.mid = 0, !.w = {}, !.kids = CloneKids(ks[i].kids)]])

\* the parent flattening check left out: every marked element gets a new span
isParentFontSpanSkipped(tree, p) == FALSE

\* "2. Parent Flattening Check"
isParentFontSpan(tree, p) ==
  /\ p # <<>>
  /\ LET parent == NodeAt(tree, Front(p))
     IN parent.tag = "SPAN" /\ parent.fs # 0 /\ Len(parent.kids) = 1

\* the body of toReplace.forEach for the element at p of tree, the k-th one:
\* the tree afterwards, and el when it left the tree with content
ForEachBody(tree, p, k, size) ==
  With(CleanInnerStyles(NodeAt(tree, p)), LAMBDA el :
    IF isParentFontSpan(tree, p)
    THEN [tree |-> PutAt(tree, Front(p),
                         [NodeAt(tree, Front(p)) EXCEPT !.fs = size, !.kids = el.kids,
                                                        !.w = @ \cup {k}]),
          out  |-> <<>>,
          reuse |-> TRUE]
    ELSE With([Sized(size, CloneKids(el.kids)) EXCEPT !.w = {k}], LAMBDA span :
           [tree |-> IF p = <<>> THEN el ELSE PutAt(tree, p, span),
            out  |-> IF p = <<>> THEN << span >> ELSE << [el EXCEPT !.mid = 0] >>,
            reuse |-> FALSE]))

\* where a live range's boundary point is after the k-th element, at p of the
\* document, was replaced (boundaries inside el move to its parent)
MapReplaced(b, p, reuse, nkids) ==
  IF reuse
  THEN (IF IsPrefix(p, b.n) \/ (b.n = Front(p) /\ b.o = 1) THEN BP(Front(p), nkids) ELSE b)
  ELSE (IF IsPrefix(p, b.n) THEN Before(p) ELSE b)

FindIn(tree, P(_)) == SeqFilter(PathsFrom(tree, <<>>), LAMBDA p : P(NodeAt(tree, p)))

\* st = [doc, det, saved]: the document, the trees that left it, the saved range
\* the k-th element is at p of the document
ForEachInDoc(st, k, size, p) ==
  With(ForEachBody(st.doc, p, k, size), LAMBDA r :
    With(Len(NodeAt(st.doc, p).kids), LAMBDA nk :
      [doc |-> r.tree, det |-> st.det \o r.out,
       saved |-> IF st.saved.on
                 THEN Rng(MapReplaced(st.saved.s, p, r.reuse, nk),
                          MapReplaced(st.saved.e, p, r.reuse, nk))
                 ELSE st.saved]))

\* the k-th element is in the i-th of the trees that left the document
ForEachDetached(st, k, size, i) ==
  With(ForEachBody(st.det[i], FindIn(st.det[i], LAMBDA n : n.mid = k)[1], k, size), LAMBDA r :
    [doc |-> st.doc, det |-> [st.det EXCEPT ![i] = r.tree] \o r.out, saved |-> st.saved])

ForEachStep(st, k, size) ==
  With(FindIn(st.doc, LAMBDA n : n.mid = k), LAMBDA here :
    IF here # <<>>
    THEN ForEachInDoc(st, k, size, here[1])
    ELSE With(CHOOSE j \in 1..Len(st.det) : FindIn(st.det[j], LAMBDA n : n.mid = k) # <<>>,
              LAMBDA i : ForEachDetached(st, k, size, i)))

RECURSIVE ForEach(_, _, _, _)
ForEach(st, k, n, size) ==
  IF k > n THEN st ELSE ForEach(ForEachStep(st, k, size), k + 1, n, size)

\* newSpans[k] after the loop: in the document or not, its path, and whether it
\* has a parent
WhereIs(st, k) ==
  With(FindIn(st.doc, LAMBDA n : k \in n.w), LAMBDA here :
    IF here # <<>> THEN [inDoc |-> TRUE, root |-> 0, path |-> here[1]]
    ELSE With(CHOOSE j \in 1..Len(st.det) : FindIn(st.det[j], LAMBDA n : k \in n.w) # <<>>,
              LAMBDA i : [inDoc |-> FALSE, root |-> i,
                          path |-> FindIn(st.det[i], LAMBDA n : k \in n.w)[1]]))

RECURSIVE StripTags(_)
StripTags(n) ==
  [n EXCEPT !.mid = 0, !.w = {}, !.kids = [i \in 1..Len(n.kids) |-> StripTags(n.kids[i])]]

\* "Re-establish selection": removeAllRanges, createRange, setStartBefore(first),
\* setEndAfter(last), addRange.  A boundary in another tree, or an end before the
\* start, collapses the range onto the new boundary; addRange ignores a range
\* that is not in the document; setStartBefore/setEndAfter throw on a node
\* without a parent.
Reestablish(first, last) ==
  LET b1 == Before(first.path)
      b2 == After(last.path)
  IN IF first.path = <<>> \/ last.path = <<>> THEN [threw |-> TRUE, sel |-> NoRange]
     ELSE IF ~last.inDoc THEN [threw |-> FALSE, sel |-> NoRange]
     ELSE IF first.inDoc /\ CmpBP(b1, b2) <= 0 THEN [threw |-> FALSE, sel |-> Rng(b1, b2)]
     ELSE [threw |-> FALSE, sel |-> Rng(b2, b2)]

\* from the search to the re-established selection, for the markers under root
Rewrite(page, root, size, live, saved) ==
  With(toReplace(page, root), LAMBDA marked :
    IF marked = <<>>
    THEN [page |-> page, sel |-> live, saved |-> saved, newSpans |-> <<>>, threw |-> FALSE]
    ELSE With(ForEach([doc |-> TagMarked(page, marked, 1), det |-> <<>>, saved |-> saved],
                      1, Len(marked), size), LAMBDA st :
      With([k \in 1..Len(marked) |-> WhereIs(st, k)], LAMBDA where :
        With(Reestablish(where[1], where[Len(marked)]), LAMBDA re :
          [page |-> StripTags(st.doc), sel |-> re.sel, saved |-> st.saved,
           newSpans |-> [k \in 1..Len(marked) |->
                           [inDoc |-> where[k].inDoc, path |-> where[k].path]],
           threw |-> re.threw]))))

-----------------------------------------------------------------------------
(* Content propagation *)

\* element.innerHTML: the markup of the children
innerHTML(surface) == CloneKids(surface.kids)

\* TextEditorComponent.cleanupEmptyLines: the p and div blocks that hold nothing
\* but <br> are dropped
IsEmptyBlock(n) ==
  /\ n.tag \in {"P", "DIV"}
  /\ \A i \in 1..Len(n.kids) : n.kids[i].tag = "BR"

RECURSIVE cleanupEmptyLines(_)
cleanupEmptyLines(html) ==
  LET kept == SeqFilter(html, LAMBDA n : ~IsEmptyBlock(n))
  IN MergeText([i \in 1..Len(kept) |-> [kept[i] EXCEPT !.kids = cleanupEmptyLines(kept[i].kids)]])

-----------------------------------------------------------------------------
(* State after construction and the first writeValue *)

Engines ==
  [place : {"run", "top", "leaf"}, form : {"font"}] \cup [place : {"top"}, form : {"span"}]

\* contents handed to writeValue
Docs ==
  { << El("B", << Txt("a") >>), Txt("b"), El("DIV", << El("BR", <<>>) >>) >>,
    << Sized(Px(DefaultFontSize), << Txt("a"), El("B", << Txt("b") >>) >>) >>,
    << FontFace(<< SpanFam(<< Txt("a") >>) >>), Txt("b") >> }

NoCalls == [handler |-> "", arg |-> <<>>, native |-> <<>>, requested |-> <<>>,
            onChange |-> 0, threw |-> FALSE, steps |-> <<>>]

Init ==
  /\ impl \in {"editor", "toolbar"}
  /\ engine \in Engines
  /\ dom \in {El("DIV", d) : d \in Docs}
  /\ isDisabled = FALSE
  /\ sel = NoRange
  /\ savedRange = NoRange
  /\ state = InitialState
  /\ isVisible = FALSE
  /\ position = [top |-> 0, left |-> 0]
  /\ isUpdating = FALSE
  /\ pc = "idle"
  /\ opSize = 0
  /\ newSpans = <<>>
  /\ emitted = <<>>
  /\ calls = NoCalls
  /\ ops = 0

ThePage == Page(dom, isDisabled)
Surface(page) == [NodeAt(page, SurfPath) EXCEPT !.ce = ""]

-----------------------------------------------------------------------------
(* Selection events *)

ToolbarCaret == Rng(BP(ToolbarPath, 0), BP(ToolbarPath, 0))

TextLeaves(page) ==
  SeqFilter(PathsFrom(page, <<>>),
            LAMBDA p : IsPrefix(SurfPath, p) /\ ~IsElem(NodeAt(page, p)))

\* the selections a user makes: all the text of the surface, its last text node,
\* a caret, the toolbar's input field, and a drag that starts in the surface and
\* ends outside it
UserRanges(page) ==
  LET ls == TextLeaves(page)
  IN {ToolbarCaret}
     \cup (IF ls = <<>> THEN {}
           ELSE {Rng(BP(ls[1], 0), BP(ls[Len(ls)], 1)),
                 Rng(BP(ls[Len(ls)], 0), BP(ls[Len(ls)], 1)),
                 Rng(BP(ls[1], 0), BP(ls[1], 0)),
                 Rng(BP(ls[1], 0), BP(ParaTextPath, 1))})

\* ToolbarService.show / hide
show(containerRect, scroll) ==
  /\ position' = [top |-> containerRect.top + scroll.y, left |-> containerRect.left + scroll.x]
  /\ isVisible' = TRUE
  /\ state' = updateActiveStates(ThePage, sel', state)

\* RichTextDirective.checkSelection, run against the live selection sel'
checkSelection(width, scroll) ==
  IF isUpdating \/ ~sel'.on \/ ~contains(SurfPath, commonAncestorContainer(sel'))
  THEN UNCHANGED <<savedRange, isVisible, position, state>>
  ELSE IF isCollapsed(sel')
  THEN isVisible' = FALSE /\ UNCHANGED <<savedRange, position, state>>
  ELSE /\ savedRange' = ServiceSaveSelection(ThePage, sel', savedRange)
       /\ IF width > 0 THEN show([top |-> 8, left |-> 8], scroll)
          ELSE UNCHANGED <<isVisible, position, state>>

\* the selectionchange listener of whichever implementation drives the surface
SelectionHandler(width, scroll) ==
  IF impl = "toolbar" THEN checkSelection(width, scroll)
  ELSE /\ state' = updateToolbarState(ThePage, sel', state)
       /\ UNCHANGED <<savedRange, isVisible, position>>

Widths  == {0, 1}
Scrolls == {[x |-> 0, y |-> 0]}

\* calls, opSize and newSpans describe the last formatting handler only as long as
\* no other handler has run since
Forget == calls' = NoCalls /\ opSize' = 0 /\ newSpans' = <<>>

\* The user's own events are followed up to the first formatting handler; the
\* handlers after it run on what the one before left.

\* the user changes the selection; selectionchange (and mouseup / keyup) follows
UserSelect ==
  /\ pc = "idle" /\ ops = 0
  /\ \E r \in UserRanges(ThePage), width \in Widths, scroll \in Scrolls :
       /\ sel' = r
       /\ SelectionHandler(width, scroll)
  /\ Forget
  /\ UNCHANGED <<impl, engine, dom, isDisabled, isUpdating, pc, emitted, ops>>

\* a selectionchange notification that arrives while a formatting handler runs
SelectionChangeEvent ==
  /\ pc # "idle"
  /\ sel' = sel
  /\ \E width \in Widths, scroll \in Scrolls : SelectionHandler(width, scroll)
  /\ UNCHANGED <<impl, engine, dom, isDisabled, isUpdating, pc, opSize, newSpans,
                 emitted, calls, ops>>

\* saveRange() of the toolbar (FloatingToolbarComponent / TextEditorComponent)
SaveRange ==
  /\ pc = "idle" /\ ops = 0
  /\ savedRange' = saveSelection(impl, ThePage, sel, savedRange)
  /\ Forget
  /\ UNCHANGED <<impl, engine, dom, isDisabled, sel, state, isVisible, position,
                 isUpdating, pc, emitted, ops>>

\* FloatingToolbarComponent.close
Close ==
  /\ pc = "idle" /\ ops = 0 /\ impl = "toolbar"
  /\ isVisible' = FALSE
  /\ Forget
  /\ UNCHANGED <<impl, engine, dom, isDisabled, sel, savedRange, state, position,
                 isUpdating, pc, emitted, ops>>

\* setDisabledState of the component / the directive
SetDisabledState ==
  /\ pc = "idle" /\ ops = 0
  /\ isDisabled' = ~isDisabled
  /\ Forget
  /\ UNCHANGED <<impl, engine, dom, sel, savedRange, state, isVisible, position,
                 isUpdating, pc, emitted, ops>>

-----------------------------------------------------------------------------
(* Command Executor *)

Commands == {"bold", "justifyCenter", "insertNothing"}

\* HTMLElement.focus() on the editor: a live selection that is not inside it
\* becomes a caret at its start
Focus(live) ==
  IF live.on /\ contains(SurfPath, live.s.n) /\ contains(SurfPath, live.e.n) THEN live
  ELSE Rng(BP(SurfPath, 0), BP(SurfPath, 0))

\* the saved range is a live range: it follows the content a command moved
Follow(saved, nc) == IF saved.on /\ nc.acted THEN nc.sel ELSE saved

\* the steps of a handler as far as the selection, the content and FormatState
\* are concerned, in statement order: restoreSelection and the native command
\* first,
RestoreThenCommand == << "restore", "native" >>

\* TextEditorComponent.onInput: onChange, saveSelection, updateToolbarState,
OnInputSteps == << "onChange", "save", "refresh" >>

\* a tail that refreshes before it re-saves
ExecuteTailRefreshFirst(who) == << "refresh", "save" >>

\* the rest of execCommand / executeCommand,
ExecuteTail(who) ==
  IF who = "editor" THEN << "save", "refresh" >> \o OnInputSteps ELSE << "save", "refresh" >>

\* and the rest of setFontSize after the rewrite
SetFontSizeTail(who) ==
  IF who = "editor" THEN << "save", "refresh", "force" >> \o OnInputSteps
  ELSE << "save", "force" >>

\* an input handler that saves the selection whatever isUpdating holds
DirectiveOnInputSavedAlways(page, live, saved, updating) ==
  ServiceSaveSelection(page, live, saved)

\* RichTextDirective.onInput: the new savedRange
DirectiveOnInputSaved(page, live, saved, updating) ==
  IF ~updating THEN ServiceSaveSelection(page, live, saved) ELSE saved

\* savedRange after a native command of the shared toolbar: the input event
\* of a command that changed the content runs onInput
AfterCommand(nc, saved, updating) ==
  IF nc.acted THEN DirectiveOnInputSaved(nc.page, nc.sel, Follow(saved, nc), updating)
  ELSE saved

\* RichTextDirective.onInput, fired by the input event of a command that
\* changed the content while isUpdating is set: onChange runs
DirectiveInputDuringUpdate(nc, c) ==
  IF nc.acted
  THEN /\ emitted' = << innerHTML(Surface(nc.page)) >>
       /\ calls' = [c EXCEPT !.onChange = @ + 1, !.steps = Append(@, "onChange")]
  ELSE /\ emitted' = emitted
       /\ calls' = c

\* TextEditorComponent.execCommand up to and including the native command
EditorExecBegin(command) ==
  LET c == [NoCalls EXCEPT !.handler = "execCommand", !.arg = << command >>]
  IN IF isDisabled
     THEN /\ calls' = c
          /\ UNCHANGED <<dom, sel, savedRange, isUpdating, pc, emitted>>
     ELSE \E nc \in {NativeCommand(ThePage, Focus(restoreSelection(sel, savedRange)),
                                    engine, command)} :
             /\ dom' = Surface(nc.page)
             /\ sel' = nc.sel
             /\ savedRange' = Follow(savedRange, nc)
             /\ calls' = [c EXCEPT !.native = << "styleWithCSS", command >>,
                                   !.steps = RestoreThenCommand]
             /\ pc' = "executed"
             /\ UNCHANGED <<isUpdating, emitted>>

\* ToolbarService.executeCommand up to and including the native command
ToolbarExecBegin(command) ==
  LET c  == [NoCalls EXCEPT !.handler = "execCommand", !.arg = << command >>,
                            !.native = << "styleWithCSS", command >>,
                            !.steps = RestoreThenCommand]
  IN \E nc \in {NativeCommand(ThePage, restoreSelection(sel, savedRange), engine, command)} :
       /\ isUpdating' = TRUE
       /\ dom' = Surface(nc.page)
       /\ sel' = nc.sel
       /\ savedRange' = AfterCommand(nc, savedRange, isUpdating')
       /\ DirectiveInputDuringUpdate(nc, c)
       /\ pc' = "executed"

ExecBegin ==
  /\ pc = "idle" /\ ops < MaxOps
  /\ ops' = ops + 1
  /\ \E command \in Commands :
       IF impl = "editor" THEN EditorExecBegin(command) ELSE ToolbarExecBegin(command)
  /\ UNCHANGED <<impl, engine, isDisabled, state, isVisible, position, opSize, newSpans>>

\* TextEditorComponent.onInput: the new content, savedRange and toolbarState
EditorOnInput(saved, st, tail) ==
  /\ emitted' = << cleanupEmptyLines(innerHTML(dom)) >>
  /\ calls' = [calls EXCEPT !.onChange = @ + 1, !.steps = @ \o tail]
  /\ savedRange' = EditorSaveSelection(ThePage, sel, saved)
  /\ state' = updateToolbarState(ThePage, sel, st)

\* the rest of execCommand / executeCommand: re-save, refresh, propagate
ExecFinish ==
  /\ pc = "executed"
  /\ pc' = "idle"
  /\ IF impl = "editor"
     THEN /\ EditorOnInput(EditorSaveSelection(ThePage, sel, savedRange),
                           updateToolbarState(ThePage, sel, state),
                           ExecuteTail(impl))
          /\ UNCHANGED isUpdating
     ELSE /\ savedRange' = ServiceSaveSelection(ThePage, sel, savedRange)
          /\ state' = updateActiveStates(ThePage, sel, state)
          /\ isUpdating' = FALSE
          /\ calls' = [calls EXCEPT !.steps = @ \o ExecuteTail(impl)]
          /\ UNCHANGED emitted
  /\ UNCHANGED <<impl, engine, dom, isDisabled, sel, isVisible, position, opSize,
                 newSpans, ops>>

-----------------------------------------------------------------------------
(* Font-Size Rewriter *)

\* setFontSize(size) up to and including the marker command
BeginSetFontSize(c, size) ==
  LET c1 == [c EXCEPT !.requested = << size >>,
                      !.steps = RestoreThenCommand,
                      !.native = IF impl = "editor" THEN << "styleWithCSS", "fontName" >>
                                 ELSE << "styleWithCSS", "fontName", "styleWithCSS" >>]
  IN \E nc \in {NativeCommand(ThePage, restoreSelection(sel, savedRange), engine, "fontName")} :
       /\ opSize' = size
       /\ newSpans' = <<>>
       /\ dom' = Surface(nc.page)
       /\ sel' = nc.sel
       /\ isUpdating' = (impl = "toolbar")
       /\ savedRange' = IF impl = "toolbar" THEN AfterCommand(nc, savedRange, isUpdating')
                        ELSE Follow(savedRange, nc)
       /\ IF impl = "toolbar" THEN DirectiveInputDuringUpdate(nc, c1)
          ELSE emitted' = emitted /\ calls' = c1
       /\ pc' = "marked"

\* a stepper click or manual entry that asks for nothing
Rejected(c) ==
  /\ calls' = c
  /\ UNCHANGED <<dom, sel, savedRange, isUpdating, pc, opSize, newSpans, emitted>>

\* the current size taken to be the default whatever FormatState holds
getCurrentFontSizeDefault(st) == Px(DefaultFontSize)

\* getCurrentFontSize (both)
getCurrentFontSize(st) ==
  IF st.fontSize \in Int THEN st.fontSize ELSE Px(DefaultFontSize)

\* changeFontSize(delta) (both): the size it requests, 0 when it requests none
changeFontSizeRequest(st, delta) ==
  LET newSize == getCurrentFontSize(st) + Px(delta)
  IN IF newSize >= Px(1) THEN newSize ELSE 0

\* manual entry that takes whatever number the text starts with, signed
setManualFontSizeRequestSigned(value) ==
  LET newSize == parseFloat(value)
  IN IF newSize.nan THEN 0 ELSE IF newSize.neg THEN 0 - newSize.v ELSE newSize.v

\* setManualFontSize(value) (both): the size it requests, 0 when it requests none
setManualFontSizeRequest(value) ==
  LET newSize == parseFloat(value)
  IN IF ~newSize.nan /\ ~newSize.neg /\ newSize.v >= Px(1) THEN newSize.v ELSE 0

StepperClick(limit) ==
  /\ pc = "idle" /\ ops < limit
  /\ ops' = ops + 1
  /\ \E delta \in {1, -1} :
       LET c == [NoCalls EXCEPT !.handler = "changeFontSize", !.arg = << delta >>]
           size == changeFontSizeRequest(state, delta)
       IN IF size # 0 THEN BeginSetFontSize(c, size) ELSE Rejected(c)
  /\ UNCHANGED <<impl, engine, isDisabled, state, isVisible, position>>

\* texts typed in the manual font-size input
ManualTexts == { << "a" >>, << "1", "4", ".", "5" >>, << "1", "a" >>, << "-", "1" >> }

ManualEntry(texts, limit) ==
  /\ pc = "idle" /\ ops < limit
  /\ ops' = ops + 1
  /\ \E value \in texts :
       LET c == [NoCalls EXCEPT !.handler = "setManualFontSize", !.arg = value]
           size == setManualFontSizeRequest(value)
       IN IF size # 0 THEN BeginSetFontSize(c, size) ELSE Rejected(c)
  /\ UNCHANGED <<impl, engine, isDisabled, state, isVisible, position>>

ChangeFontSize == StepperClick(MaxOps)

SetManualFontSize == ManualEntry(ManualTexts, MaxOps)

\* the element the shared toolbar searches: "Scope search to container"
SearchRoot ==
  IF impl = "editor" THEN SurfPath
  ELSE IF savedRange.on
       THEN LET node == commonAncestorContainer(savedRange)
            IN IF IsElem(NodeAt(ThePage, node)) THEN node ELSE parentElement(node)
       ELSE <<>>

\* try { ... } finally { isUpdating.next(false) } when a step throws; the
\* embedded editor has no handler of its own
Unwind ==
  /\ pc' = "idle"
  /\ calls' = [calls EXCEPT !.threw = TRUE]
  /\ isUpdating' = FALSE

\* from the search for marked elements to the re-established selection
RewriteMarked ==
  /\ pc = "marked"
  /\ \E rw \in {Rewrite(ThePage, SearchRoot, opSize, sel, savedRange)} :
        /\ dom' = Surface(rw.page)
        /\ sel' = rw.sel
        /\ savedRange' = rw.saved
        /\ newSpans' = rw.newSpans
        /\ IF rw.threw THEN Unwind
           ELSE /\ pc' = "rewritten"
                /\ calls' = [calls EXCEPT !.steps = Append(@, "rewrite")]
                /\ UNCHANGED isUpdating
  /\ UNCHANGED <<impl, engine, isDisabled, state, isVisible, position, opSize,
                 emitted, ops>>

\* the rest of setFontSize: re-save, force the size, propagate
FinishSetFontSize ==
  /\ pc = "rewritten"
  /\ pc' = "idle"
  /\ IF impl = "editor"
     THEN /\ EditorOnInput(EditorSaveSelection(ThePage, sel, savedRange),
                           [updateToolbarState(ThePage, sel, state) EXCEPT !.fontSize = opSize],
                           SetFontSizeTail(impl))
          /\ UNCHANGED isUpdating
     ELSE /\ savedRange' = ServiceSaveSelection(ThePage, sel, savedRange)
          /\ state' = [state EXCEPT !.fontSize = opSize]
          /\ isUpdating' = FALSE
          /\ calls' = [calls EXCEPT !.steps = @ \o SetFontSizeTail(impl)]
          /\ UNCHANGED emitted
  /\ UNCHANGED <<impl, engine, dom, isDisabled, sel, isVisible, position, opSize,
                 newSpans, ops>>

\* a step of the running handler throws
Raise ==
  /\ pc # "idle"
  /\ Unwind
  /\ UNCHANGED <<impl, engine, dom, isDisabled, sel, savedRange, state, isVisible,
                 position, opSize, newSpans, emitted, ops>>

Next ==
  \/ UserSelect
  \/ SelectionChangeEvent
  \/ SaveRange
  \/ Close
  \/ SetDisabledState
  \/ ExecBegin
  \/ ExecFinish
  \/ ChangeFontSize
  \/ SetManualFontSize
  \/ RewriteMarked
  \/ FinishSetFontSize
  \/ Raise

Spec == Init /\ [][Next]_vars

-----------------------------------------------------------------------------
(* Resizing the same run again: the selection is made and saved once, and the *)
(* font-size handlers follow one another on it                                *)

AllText(page) ==
  LET ls == TextLeaves(page) IN Rng(BP(ls[1], 0), BP(ls[Len(ls)], 1))

\* the state Spec is in once the user has selected all the text of a surface
\* that holds no marker and the toolbar has saved the range
InitTwice ==
  /\ impl \in {"editor", "toolbar"}
  /\ engine \in Engines
  /\ dom \in {El("DIV", d) : d \in Docs}
  /\ FindIn(dom, IsMarker) = <<>>
  /\ isDisabled = FALSE
  /\ sel = AllText(Page(dom, FALSE))
  /\ savedRange = sel
  /\ state = refresh(impl, Page(dom, FALSE), sel, InitialState)
  /\ isVisible = (impl = "toolbar")
  /\ position = IF impl = "toolbar" THEN [top |-> 8, left |-> 8] ELSE [top |-> 0, left |-> 0]
  /\ isUpdating = FALSE
  /\ pc = "idle"
  /\ opSize = 0
  /\ newSpans = <<>>
  /\ emitted = <<>>
  /\ calls = NoCalls
  /\ ops = 0

\* texts that ask for a size
SizeTexts == { << "1", "4", ".", "5" >>, << "1", "a" >> }

ChangeFontSizeAgain == StepperClick(MaxOps + 1)

SetManualFontSizeAgain == ManualEntry(SizeTexts, MaxOps + 1)

NextTwice ==
  \/ ChangeFontSizeAgain
  \/ SetManualFontSizeAgain
  \/ RewriteMarked
  \/ FinishSetFontSize

SpecTwice == InitTwice /\ [][NextTwice]_vars

-----------------------------------------------------------------------------
(* Manual entry: any text of the alphabet typed into the size input, with all *)
(* the text of the surface selected                                           *)

InitManual == InitTwice /\ engine = [place |-> "run", form |-> "font"]

\* the texts typed: every text of the alphabet up to MaxLen characters
TypedTexts == StringsUpTo(MaxLen)

SetManualFontSizeTyped == ManualEntry(TypedTexts, MaxOps)

NextManual ==
  \/ SetManualFontSizeTyped
  \/ RewriteMarked
  \/ FinishSetFontSize

SpecManual == InitManual /\ [][NextManual]_vars

-----------------------------------------------------------------------------
(* Typing into a rich-text surface of the shared toolbar: the input event runs *)
(* RichTextDirective.onInput, the keyup after it runs checkSelection           *)

InitInput == Init /\ impl = "toolbar"

\* the text nodes of the surface that the live selection spans exactly
SelectedText(page, r) ==
  {t \in Range(TextLeaves(page)) : r = Rng(BP(t, 0), BP(t, 1))}

\* the user types a character over a selected text node of an enabled surface:
\* the character replaces the text and the caret is left after it; the
\* collapsed selection makes checkSelection hide the toolbar
Typing ==
  /\ pc = "idle" /\ ~isDisabled
  /\ \E t \in SelectedText(ThePage, sel) :
       /\ dom' = Surface(PutAt(ThePage, t, Txt("x")))
       /\ sel' = Rng(BP(t, 1), BP(t, 1))
  /\ emitted' = << innerHTML(dom') >>
  /\ savedRange' = DirectiveOnInputSaved(Page(dom', isDisabled), sel', savedRange, isUpdating)
  /\ isVisible' = FALSE
  /\ Forget
  /\ UNCHANGED <<impl, engine, isDisabled, state, position, isUpdating, pc, ops>>

NextInput ==
  \/ UserSelect
  \/ SetDisabledState
  \/ Typing
  \/ ExecBegin
  \/ ExecFinish

SpecInput == InitInput /\ [][NextInput]_vars

-----------------------------------------------------------------------------
(* Properties *)

\* setFontSize has returned normally
Returned == pc = "idle" /\ calls.requested # <<>> /\ ~calls.threw

InSurface(r) == r.on /\ contains(SurfPath, r.s.n) /\ contains(SurfPath, r.e.n)

HasMarker(tree) == FindIn(tree, IsMarker) # <<>>

\* C1: once setFontSize(s) has returned, having resized a selection inside the
\* surface, FormatState.fontSize is s: nothing after the force-set replaces it
ForceSetSurvives ==
  (Returned /\ newSpans # <<>> /\ InSurface(sel)) => state.fontSize = opSize

\* C1: setFontSize has returned after resizing a selection in the surface
ForceSetReached ==
  Returned /\ newSpans # <<>> /\ InSurface(sel) /\ state.fontSize = opSize

\* C2: when setFontSize has returned, no element of the surface carries the
\* marker token, as a font face or in an inline style
NoMarkerSurvives == Returned => ~HasMarker(dom)

\* C2: setFontSize has returned after replacing marked elements
MarkersReplaced == Returned /\ Len(newSpans) > 1 /\ ~HasMarker(dom)

\* C3: isUpdating is true exactly while a Command Executor or Font-Size Rewriter
\* invocation is in progress
UpdatingHeld == isUpdating <=> (pc # "idle")

\* C3: an invocation of the shared toolbar has ended by an inner step raising
UpdatingCleared == impl = "toolbar" /\ pc = "idle" /\ calls.threw /\ ~isUpdating

\* C4: a selection-change notification delivered while an invocation is in
\* progress changes none of visibility, position, SavedRange and FormatState
NotificationIgnored ==
  [][SelectionChangeEvent => UNCHANGED <<isVisible, position, savedRange, state>>]_vars

\* C4: a notification can arrive mid-operation with a non-collapsed selection in
\* the surface of the shared toolbar, where its handler would otherwise act
NotificationPending ==
  /\ impl = "toolbar" /\ pc # "idle" /\ isUpdating
  /\ InSurface(sel) /\ ~isCollapsed(sel) /\ ~isVisible

\* C6: save() replaces SavedRange only by the live range, and only when that
\* range's common ancestor lies within the surface; otherwise SavedRange keeps
\* its value
SaveOnlyInside ==
  [][SaveRange =>
       /\ savedRange' \in {savedRange, sel}
       /\ ~(sel.on /\ contains(SurfPath, commonAncestorContainer(sel)))
            => savedRange' = savedRange]_vars

\* C6: a range is saved while the live selection lies outside the surface
SavedKept ==
  /\ pc = "idle" /\ ops = 0 /\ savedRange.on /\ sel.on
  /\ ~contains(SurfPath, commonAncestorContainer(sel))
  /\ calls = NoCalls

\* the command a handler that has just begun hands to the browser
Begun(c, at) == IF at = "marked" THEN "fontName" ELSE c.arg[1]

\* C7: restore() leaves the live selection, SavedRange and FormatState alone
\* when SavedRange is unset, and makes SavedRange the live selection when it is
\* set; the handler's native command then runs on that selection
RestoreApplies ==
  [][(pc = "idle" /\ pc' # "idle") =>
       LET r0 == IF savedRange.on THEN savedRange ELSE sel
           r  == IF impl = "editor" /\ pc' = "executed" THEN Focus(r0) ELSE r0
       IN \E nc \in {NativeCommand(ThePage, r, engine, Begun(calls', pc'))} :
            /\ sel' = nc.sel
            /\ state' = state
            /\ ~savedRange.on => savedRange' = savedRange
            /\ ~nc.acted => savedRange' = savedRange /\ dom' = dom]_vars

\* C7: a handler has restored a saved caret, on which its command does not act
RestoredSaved ==
  /\ pc = "marked" /\ savedRange.on /\ isCollapsed(savedRange) /\ sel = savedRange
  /\ calls.onChange = 0

\* C8: a command executed on a disabled surface invokes no native command and
\* changes none of the content, the live selection, SavedRange and FormatState,
\* and propagates nothing
DisabledExecuteNoOp ==
  [][(ExecBegin /\ isDisabled) =>
       /\ UNCHANGED <<dom, sel, savedRange, state, emitted>>
       /\ calls'.native = <<>>]_vars

\* C8: the embedded editor has declined a command on its disabled surface
DisabledDeclined ==
  /\ isDisabled /\ pc = "idle" /\ calls.handler = "execCommand" /\ calls.native = <<>>

IsSized(n) == n.tag = "SPAN" /\ n.fs # 0

\* the size wrappers that lie inside another size wrapper
NestedWrappers(tree) ==
  {p \in Range(FindIn(tree, IsSized)) :
     \E k \in 0..(Len(p) - 1) : IsSized(NodeAt(tree, SubSeq(p, 1, k)))}

\* the marked elements that are the sole child of a span declaring a font-size
\* and hold no marked element themselves
SoleMarked(page, root) ==
  {p \in Range(toReplace(page, root)) :
     /\ NodeAt(page, Front(p)).tag = "SPAN"
     /\ NodeAt(page, Front(p)).fs # 0
     /\ Len(NodeAt(page, Front(p)).kids) = 1
     /\ FindIn(NodeAt(page, p), IsMarker) = << <<>> >>}

\* C5: setFontSize on a run that setFontSize has resized before adds no size
\* wrapper inside another; a marked element that is the sole child of a span
\* declaring a font-size is removed, its children take its place in their order,
\* and that span carries the new size
ReuseCollapses ==
  [][(RewriteMarked /\ ops >= 2) =>
       /\ Cardinality(NestedWrappers(dom')) <= Cardinality(NestedWrappers(dom))
       /\ ~HasMarker(dom')
       /\ \A p \in SoleMarked(ThePage, SearchRoot) :
            NodeAt(Page(dom', isDisabled), Front(p))
              = [NodeAt(ThePage, Front(p)) EXCEPT
                   !.fs = opSize,
                   !.kids = CleanInnerStyles(NodeAt(ThePage, p)).kids]]_vars

\* C5: the second setFontSize on a run has left one span, carrying the new size
SingleWrapper ==
  /\ pc = "rewritten" /\ ops = 2 /\ Len(newSpans) = 1 /\ ~HasMarker(dom)
  /\ LET spans == FindIn(dom, LAMBDA n : n.tag = "SPAN")
     IN Len(spans) = 1 /\ NodeAt(dom, spans[1]).fs = opSize

\* C9: changeFontSize(delta) requests FormatState.fontSize + delta, and requests
\* nothing, leaving content and FormatState as they are, when that is below 1:
\* +1 at 12 requests 13, -1 at 1 is declined
StepperRequests ==
  [][ChangeFontSizeAgain =>
       LET delta == calls'.arg[1]
           want  == state.fontSize + Px(delta)
       IN /\ want >= Px(1) => calls'.requested = << want >> /\ opSize' = want
          /\ want < Px(1) =>
               calls'.requested = <<>> /\ UNCHANGED <<dom, sel, savedRange, state, emitted>>
          /\ (state.fontSize = Px(12) /\ delta = 1) => calls'.requested = << Px(13) >>
          /\ (state.fontSize = Px(1) /\ delta = -1) =>
               calls'.requested = <<>> /\ state'.fontSize = Px(1) /\ dom' = dom]_vars

\* C9: changeFontSize(-1) has been declined at size 1
StepperDeclined ==
  /\ pc = "idle" /\ calls.handler = "changeFontSize" /\ calls.arg = << -1 >>
  /\ calls.requested = <<>> /\ state.fontSize = Px(1)

\* s is a decimal number: digits with at most one point, an optional sign first
Unsigned(s) == IF s # <<>> /\ Head(s) = "-" THEN Tail(s) ELSE s

IsDecimal(s) ==
  LET u == Unsigned(s)
  IN /\ \A i \in 1..Len(u) : u[i] \in Digits \cup {"."}
     /\ Cardinality({i \in 1..Len(u) : u[i] = "."}) <= 1
     /\ \E i \in 1..Len(u) : u[i] \in Digits

\* the value of a decimal number, in 1/Scale, without its sign
DecimalValue(s) ==
  LET u    == Unsigned(s)
      ds   == SeqFilter(u, LAMBDA c : c \in Digits)
      dot  == {i \in 1..Len(u) : u[i] = "."}
      frac == IF dot = {} THEN 0 ELSE Len(u) - (CHOOSE i \in dot : TRUE)
  IN IntVal(ds) * Pow10(MaxLen - 1 - frac)

\* the lengths of the prefixes of text that are decimal numbers
Leading(text) == {k \in 0..Len(text) : IsDecimal(SubSeq(text, 1, k))}

Longest(ks) == CHOOSE k \in ks : \A j \in ks : j <= k

\* a step that is a call of setManualFontSize
ManualCall == pc = "idle" /\ ops' = ops + 1 /\ calls'.handler = "setManualFontSize"

Declined ==
  /\ calls'.requested = <<>> /\ ~calls'.threw
  /\ UNCHANGED <<dom, sel, savedRange, state, emitted, pc>>

\* C10: setManualFontSize(text) is declined, keeping content, selection and
\* FormatState and raising nothing, when text does not start with a decimal
\* number or that number is below 1; otherwise it requests the value of the
\* longest decimal number text starts with, whatever follows it
ManualRequestsLeading ==
  [][ManualCall =>
       LET text == calls'.arg
           ks   == Leading(text)
           lit  == SubSeq(text, 1, Longest(ks))
       IN IF ks # {} /\ Head(lit) # "-" /\ DecimalValue(lit) >= Px(1)
          THEN calls'.requested = << DecimalValue(lit) >> /\ opSize' = DecimalValue(lit)
          ELSE Declined]_vars

\* C10: a text that is not a number has been given a size
ManualPrefixTaken ==
  /\ calls.handler = "setManualFontSize" /\ ~IsDecimal(calls.arg)
  /\ calls.requested # <<>> /\ pc = "marked"

\* C10 as stated: setManualFontSize(text) is declined when text is not a number
\* or is a number below 1, and requests the number otherwise
ManualRequestsNumeric ==
  [][ManualCall =>
       LET text == calls'.arg
       IN IF IsDecimal(text) /\ Head(text) # "-" /\ DecimalValue(text) >= Px(1)
          THEN calls'.requested = << DecimalValue(text) >> /\ opSize' = DecimalValue(text)
          ELSE Declined]_vars

\* the marker search of the running setFontSize matches, or has matched, nothing
NoMatch ==
  IF pc = "marked" THEN toReplace(ThePage, SearchRoot) = <<>> ELSE newSpans = <<>>

\* C11: when the marker search of setFontSize matches no element, the steps
\* after the marker command change none of the surface content, the live
\* selection and FormatState (fontSize included), and raise nothing
NoMatchNoOp ==
  [][((RewriteMarked \/ FinishSetFontSize) /\ NoMatch) =>
       UNCHANGED <<dom, sel, state>> /\ ~calls'.threw]_vars

\* C11: setFontSize has returned after a search that matched nothing
NothingMatched == Returned /\ newSpans = <<>> /\ ~HasMarker(dom)

BooleanKeys ==
  {"bold", "italic", "underline", "justifyLeft", "justifyCenter", "justifyRight"}

Refreshed(live) ==
  IF live.on /\ contains(SurfPath, anchorNode(live))
  THEN /\ state' \in {state, Probe(ThePage, live)}
       /\ ~isDisabled => state' = Probe(ThePage, live)
  ELSE state' = state

\* C13: refresh() leaves every key of FormatState as it was when there is no
\* live selection anchor or the anchor lies outside the surface; the keys are
\* recomputed, from the probe at the anchor, only when the anchor is inside
RefreshFrame ==
  [][/\ ExecFinish => Refreshed(sel)
     /\ (UserSelect /\ impl = "editor") => Refreshed(sel')]_vars

\* C13: a refresh has run with the anchor in the toolbar's input field, on a
\* FormatState that an earlier refresh had probed
StaleOutside ==
  /\ impl = "editor" /\ pc = "idle" /\ sel = ToolbarCaret
  /\ state.fontSize = Px(InheritedFontSize)

\* C14: every execute on an enabled surface and every setFontSize has, by the
\* time it ends, called the content-change callback with the surface's content
\* as the invocation leaves it (as it is, or with its empty lines dropped)
ContentPropagated ==
  [][((ExecFinish \/ FinishSetFontSize) /\ ~isDisabled) =>
       /\ calls'.onChange > 0
       /\ emitted' \in {<< innerHTML(dom') >>, << cleanupEmptyLines(innerHTML(dom')) >>}]_vars

\* C14: setFontSize of the shared toolbar has returned after resizing content
\* and after the content-change callback was called
PropagatedOnce ==
  /\ impl = "toolbar" /\ Returned /\ newSpans # <<>> /\ ~isDisabled
  /\ calls.onChange = 1 /\ ~HasMarker(dom)

\* the steps of the running / last handler that change the content
Mutating == {"native", "rewrite"}

Precedes(p, q) == CmpBP(Before(p), Before(q)) < 0

\* C16: when setFontSize produces or reuses wrappers, they are collected in
\* document order, all in the document, the live selection then runs from just
\* before the first to just after the last, and SavedRange becomes that range
WrappersSpanned ==
  [][/\ (RewriteMarked /\ newSpans' # <<>>) =>
          /\ \A k \in 1..Len(newSpans') : newSpans'[k].inDoc
          /\ \A i, j \in 1..Len(newSpans') :
               i < j => Precedes(newSpans'[i].path, newSpans'[j].path)
          /\ sel' = Rng(Before(newSpans'[1].path), After(newSpans'[Len(newSpans')].path))
     /\ (FinishSetFontSize /\ newSpans # <<>>) => savedRange' = sel]_vars

\* C16: setFontSize has rewritten marked elements of both forms, one inside
\* the other, and has rebuilt the selection from its wrappers
MixedFormsRewritten ==
  /\ pc = "rewritten" /\ Len(newSpans) > 1 /\ ~isDisabled
  /\ newSpans[1].inDoc /\ ~newSpans[Len(newSpans)].inDoc

\* the paths of the proper descendants of the node at p
Below(page, p) == {q \in Range(PathsFrom(NodeAt(page, p), p)) : q # p}

\* the wrappers of the last rewrite that are in the document
WrapperPaths == {newSpans[k].path : k \in {i \in 1..Len(newSpans) : newSpans[i].inDoc}}

\* C17: after the rewrite of setFontSize(s) every wrapper it produced or reused
\* carries font-size s, and no descendant of a wrapper carries an inline
\* font-size, a legacy size attribute or the marker family
WrappersClean ==
  pc = "rewritten" =>
    \A p \in WrapperPaths :
      /\ NodeAt(ThePage, p).fs = opSize
      /\ \A q \in Below(ThePage, p) :
           LET n == NodeAt(ThePage, q)
           IN n.fs = 0 /\ ~n.sz /\ ~n.face /\ ~n.fam

\* C17: a wrapper holds a span whose font-size the rewrite has cleared
CleanedInside ==
  /\ pc = "rewritten"
  /\ \E p \in WrapperPaths : \E q \in Below(ThePage, p) :
       LET n == NodeAt(ThePage, q) IN n.tag = "SPAN" /\ n.fs = 0 /\ ~n.fam

\* C18: when setFontSize returns after rebuilding the selection, each of bold,
\* italic, underline and the alignment keys of FormatState is the value probed
\* at the rebuilt selection's anchor in the rewritten content
OtherKeysProbed ==
  [][(FinishSetFontSize /\ newSpans # <<>> /\ InSurface(sel)) =>
       \A k \in BooleanKeys : state'[k] = Probe(ThePage, sel)[k]]_vars

\* C18: setFontSize of the shared toolbar has returned with the selection
\* rebuilt around its wrappers, outside the bold element the anchor was in when
\* FormatState was last probed
RebuiltOutsideBold ==
  /\ impl = "toolbar" /\ Returned /\ newSpans # <<>> /\ InSurface(sel) /\ ~isDisabled
  /\ state.bold /\ ~Probe(ThePage, sel).bold

\* a step in which a handler or an event may save the selection: it ends with
\* no handler running and is not the unwinding of a rewrite
SaveStep == pc' = "idle" /\ pc # "marked"

\* C19: in the shared toolbar, SavedRange is only ever replaced by a clone of a
\* live range whose common ancestor reaches contenteditable="true" before
\* contenteditable="false" or the floating toolbar; a selection in the toolbar
\* or in a region that is not editable never becomes SavedRange
SavedFromEditable ==
  [][(impl = "toolbar" /\ SaveStep /\ savedRange' # savedRange) =>
       /\ savedRange' = sel' /\ sel'.on
       /\ isContentEditable(Page(dom', isDisabled'), commonAncestorContainer(sel'))
       /\ contains(SurfPath, commonAncestorContainer(savedRange'))
       /\ ~isDisabled']_vars

\* C19: the shared toolbar holds a saved range while the live selection is in
\* its own input field
ToolbarSelectionNotSaved ==
  /\ impl = "toolbar" /\ pc = "idle" /\ sel = ToolbarCaret
  /\ savedRange.on /\ savedRange # sel

\* C20: an input event delivered to a rich-text surface while isUpdating is
\* true hands the surface's content to the content-change callback and sets no
\* SavedRange; delivered while isUpdating is false it also saves the selection
InputSavesUnlessUpdating ==
  [][/\ Typing =>
          emitted' = << innerHTML(dom') >> /\ savedRange' = sel'
     /\ (ExecBegin /\ dom' # dom) =>
          /\ isUpdating' /\ calls'.onChange = 1
          /\ emitted' = << innerHTML(dom') >>
          /\ ~savedRange.on => ~savedRange'.on]_vars

\* C20: a command has changed the content, and so fired an input event, while
\* isUpdating is set, a selection is live in the surface and none is saved
InputWhileUpdating ==
  /\ pc = "executed" /\ isUpdating /\ calls.onChange = 1
  /\ InSurface(sel) /\ ~savedRange.on

\* the selection the check looks at lies in the surface: it has a range and the
\* surface contains the range's common ancestor
OwnedBySurface(r) == r.on /\ contains(SurfPath, commonAncestorContainer(r))

\* a selection check of a rich-text surface that runs while no update is flagged
SelectionCheck ==
  impl = "toolbar" /\ ~isUpdating /\ (UserSelect \/ SelectionChangeEvent)

\* C21: a selection check on a rich-text surface leaves visibility, position,
\* SavedRange and FormatState alone when the live selection has no range or its
\* common ancestor is outside the surface; a collapsed selection inside the
\* surface hides the toolbar; a non-collapsed one is saved as SavedRange and,
\* its rectangle being of positive width, the toolbar is shown (a rectangle of
\* no width leaves the toolbar as it was)
SelectionCheckActs ==
  [][SelectionCheck =>
       IF ~OwnedBySurface(sel')
       THEN UNCHANGED <<isVisible, position, savedRange, state>>
       ELSE IF isCollapsed(sel')
       THEN ~isVisible'
       ELSE /\ savedRange' = sel'
            /\ isVisible' \/ UNCHANGED <<isVisible, position, state>>]_vars

\* C21: the toolbar is shown for a non-collapsed selection inside a disabled
\* rich-text surface, and that selection is not the saved one
ShownWithoutSave ==
  /\ impl = "toolbar" /\ pc = "idle" /\ ops = 0 /\ isDisabled /\ isVisible
  /\ OwnedBySurface(sel) /\ ~isCollapsed(sel) /\ savedRange # sel

\* C21: what the check does on either surface: on an enabled surface it acts
\* as above; on a disabled one a non-collapsed selection inside the surface
\* leaves SavedRange as it was, whether or not the toolbar is shown
SelectionCheckEditable ==
  [][SelectionCheck =>
       IF ~OwnedBySurface(sel')
       THEN UNCHANGED <<isVisible, position, savedRange, state>>
       ELSE IF isCollapsed(sel')
       THEN ~isVisible'
       ELSE /\ savedRange' = (IF isDisabled THEN savedRange ELSE sel')
            /\ isVisible' \/ UNCHANGED <<isVisible, position, state>>]_vars

====
